---- MODULE Spec2Model ----
(***************************************************************************)
(* The integration agent of html-to-nextjs-converter                       *)
(* (src/integration/try-03-testing.py, try-04-testing.py): the tool        *)
(* layer over a project tree, the CodeIndexer over its persisted Chroma    *)
(* collection, and the AgentExecutor loop that dispatches the tools.       *)
(*                                                                         *)
(* Text is a sequence of tokens.  A token is either a literal piece of a   *)
(* format string or one character class of a payload:                      *)
(*   "x"   a character of well-typed source text                           *)
(*   "y"   a character that makes a TypeScript file ill-typed              *)
(*   "CR", "LF"  carriage return, line feed                                *)
(*   "BAD" a byte sequence that is not valid UTF-8 (files, pipes only)     *)
(*   "SUR" a lone surrogate, which str can hold and UTF-8 cannot encode    *)
(* A path is a sequence of components; the file system maps the absolute   *)
(* paths that exist to their nodes.                                        *)
(***************************************************************************)
EXTENDS Integers, Sequences, FiniteSets, TLC

VARIABLES
    fs,           \* the file system: absolute path -> node, for existing paths
    projectPath,  \* os.getenv("PROJECT_PATH"): [set, parts]
    linesep,      \* os.linesep of the platform, as text
    stderrNoise,  \* what the node toolchain prints on stderr in this environment
    schemaPath,   \* os.getenv("SCHEMA_JSON_PATH"): [set, parts]
    apiKey,       \* os.getenv("GEMINI_API_KEY") is set
    pc,           \* where the run is
    inflight,     \* the action the executor is dispatching
    transcript,   \* intermediate_steps: the (action, observation) pairs so far
    iterations,   \* AgentExecutor's iteration counter
    outcome,      \* how the run ended
    output,       \* result["output"] of agent_executor.invoke, "" before it returns
    collection,   \* the persisted Chroma collection "langchain"
    nextId,       \* source of fresh chunk ids (uuid4)
    indexer,      \* CodeIndexer: "none" | "constructed" | "loading" | "indexed"
    loaded,       \* the files the loader's thread pool has finished
    warned,       \* index_project printed the no-documents warning
    retrieved,    \* the last result of retriever.get_relevant_documents
    schema_data,  \* gemini.py: json.loads of the schema export
    pageUid,      \* gemini.py: page_content_type_uid, "" before it is found
    api,          \* gemini.py: the inference request that is being made
    todo          \* gemini.py: the files a refactoring stage has still to visit

vars == << fs, projectPath, linesep, stderrNoise, schemaPath, apiKey, pc, inflight,
           transcript, iterations, outcome, output, collection, nextId, indexer, loaded,
           warned, retrieved, schema_data, pageUid, api, todo >>

\* The state of the one-shot script (src/integration/gemini.py).
scriptVars == << schema_data, pageUid, api, todo >>

----------------------------------------------------------------------------
(* Sequences *)

Range(s) == { s[i] : i \in 1..Len(s) }

Front(s) == SubSeq(s, 1, Len(s) - 1)

Last(s) == s[Len(s)]

IsPrefix(p, s) == Len(p) <= Len(s) /\ SubSeq(s, 1, Len(p)) = p

----------------------------------------------------------------------------
(* The file system, as open(), os.makedirs() and os.listdir() see it *)

Dir == [kind |-> "dir", data |-> <<>>]

File(d) == [kind |-> "file", data |-> d]

Absent == [kind |-> "absent", data |-> <<>>]

Node(F, p) == IF p = <<>> THEN Dir ELSE IF p \in DOMAIN F THEN F[p] ELSE Absent

Put(F, p, n) == [q \in DOMAIN F \cup {p} |-> IF q = p THEN n ELSE F[q]]

\* Path resolution: every component is looked up in a directory that exists.
RECURSIVE Walk(_, _, _)
Walk(F, cur, comps) ==
    IF comps = <<>> THEN [err |-> "", path |-> cur]
    ELSE IF Node(F, cur).kind = "absent" THEN [err |-> "FileNotFoundError", path |-> cur]
    ELSE IF Node(F, cur).kind = "file" THEN [err |-> "NotADirectoryError", path |-> cur]
    ELSE Walk(F,
              CASE Head(comps) = ".." -> (IF cur = <<>> THEN cur ELSE Front(cur))
                [] Head(comps) = "."  -> cur
                [] OTHER              -> Append(cur, Head(comps)),
              Tail(comps))

Resolve(F, comps) == Walk(F, <<>>, comps)

Exists(F, comps) ==
    Resolve(F, comps).err = "" /\ Node(F, Resolve(F, comps).path).kind # "absent"

\* os.path.join(project_path, file_path): an absolute second argument wins.
Join(pp, arg) == IF arg.abs THEN arg.parts ELSE pp.parts \o arg.parts

\* os.path.dirname: textual, everything before the last component.
Dirname(comps) == IF comps = <<>> THEN comps ELSE Front(comps)

\* os.mkdir(name)
Mkdir(F, comps) ==
    LET w == Resolve(F, comps)
    IN  IF w.err # "" THEN [err |-> w.err, fs |-> F]
        ELSE IF Node(F, w.path).kind # "absent" THEN [err |-> "FileExistsError", fs |-> F]
        ELSE [err |-> "", fs |-> Put(F, w.path, Dir)]

\* os.makedirs(name, exist_ok=True)
RECURSIVE makedirs(_, _)
makedirs(F, comps) ==
    LET head == Dirname(comps)
        up   == IF comps # <<>> /\ head # <<>> /\ ~Exists(F, head)
                THEN makedirs(F, head)
                ELSE [err |-> "", fs |-> F]
        \* except FileExistsError: pass
        F1   == up.fs
        m    == Mkdir(F1, comps)
    IN  IF up.err \notin {"", "FileExistsError"} THEN up
        ELSE IF comps # <<>> /\ head # <<>> /\ ~Exists(F, head) /\ Last(comps) = "."
             THEN [err |-> "", fs |-> F1]
        ELSE IF m.err = "" THEN m
        \* except OSError: if not exist_ok or not path.isdir(name): raise
        ELSE IF Exists(F1, comps) /\ Node(F1, Resolve(F1, comps).path).kind = "dir"
             THEN [err |-> "", fs |-> F1]
        ELSE m

\* Reading in text mode (newline=None): "\r\n" and "\r" become "\n".
RECURSIVE UniversalNewlines(_)
UniversalNewlines(t) ==
    IF t = <<>> THEN <<>>
    ELSE IF Head(t) = "CR"
         THEN IF Len(t) >= 2 /\ t[2] = "LF"
              THEN <<"LF">> \o UniversalNewlines(SubSeq(t, 3, Len(t)))
              ELSE <<"LF">> \o UniversalNewlines(Tail(t))
    ELSE <<Head(t)>> \o UniversalNewlines(Tail(t))

\* Writing in text mode (newline=None): "\n" becomes os.linesep.
RECURSIVE TranslateOut(_, _)
TranslateOut(t, sep) ==
    IF t = <<>> THEN <<>>
    ELSE (IF Head(t) = "LF" THEN sep ELSE <<Head(t)>>) \o TranslateOut(Tail(t), sep)

\* open(path, 'r', encoding='utf-8') and f.read()
OpenRead(F, comps) ==
    LET w == Resolve(F, comps)
        n == Node(F, w.path)
    IN  IF w.err # "" THEN [err |-> w.err, text |-> <<>>]
        ELSE IF n.kind = "absent" THEN [err |-> "FileNotFoundError", text |-> <<>>]
        ELSE IF n.kind = "dir" THEN [err |-> "IsADirectoryError", text |-> <<>>]
        ELSE IF "BAD" \in Range(n.data) THEN [err |-> "UnicodeDecodeError", text |-> <<>>]
        ELSE [err |-> "", text |-> UniversalNewlines(n.data)]

\* open(path, 'w', encoding='utf-8') and f.write(content): the file is created
\* or truncated before the content is encoded.
OpenWrite(F, comps, content, sep) ==
    LET w == Resolve(F, comps)
        n == Node(F, w.path)
    IN  IF w.err # "" THEN [err |-> w.err, fs |-> F]
        ELSE IF n.kind = "dir" THEN [err |-> "IsADirectoryError", fs |-> F]
        ELSE IF "SUR" \in Range(content)
             THEN [err |-> "UnicodeEncodeError", fs |-> Put(F, w.path, File(<<>>))]
        ELSE [err |-> "", fs |-> Put(F, w.path, File(TranslateOut(content, sep)))]

----------------------------------------------------------------------------
(* Section 1 of the scripts: the tools *)

\* str(path): the components joined by "/".
RECURSIVE Slashed(_)
Slashed(comps) ==
    IF comps = <<>> THEN <<>>
    ELSE IF Len(comps) = 1 THEN <<comps[1]>>
    ELSE <<Head(comps), "/">> \o Slashed(Tail(comps))

PathText(arg) == (IF arg.abs THEN <<"/">> ELSE <<>>) \o Slashed(arg.parts)

AbsText(comps) == <<"/">> \o Slashed(comps)

\* What a tool call does: it returns text, raises, or never comes back; and the
\* file system it leaves.
Returned(t, F) == [kind |-> "returned", text |-> t, fs |-> F]

Raised(e, F) == [kind |-> "raised", text |-> <<e>>, fs |-> F]

Blocked(F) == [kind |-> "blocked", text |-> <<>>, fs |-> F]

ReadErrorPrefix == "Error reading file "

WriteErrorPrefix == "Error writing to file "

ListErrorPrefix == "Error listing directory "

\* read_file without its try block: the exception of open() leaves the tool.
read_file_unguarded(F, pp, arg) ==
    LET r == OpenRead(F, Join(pp, arg))
    IN  IF ~pp.set THEN Raised("TypeError", F)
        ELSE IF r.err # "" THEN Raised(r.err, F)
        ELSE Returned(r.text, F)

\* os.path.join(None, file_path) raises TypeError inside the try block.
read_file(F, pp, arg) ==
    LET r == OpenRead(F, Join(pp, arg))
    IN  IF ~pp.set
        THEN Returned(<<ReadErrorPrefix>> \o PathText(arg) \o <<": ", "TypeError">>, F)
        ELSE IF r.err # ""
        THEN Returned(<<ReadErrorPrefix>> \o PathText(arg) \o <<": ", r.err>>, F)
        ELSE Returned(r.text, F)

\* write_file without os.makedirs: the directories must exist already.
write_file_no_makedirs(F, pp, arg, content, sep) ==
    LET abs == Join(pp, arg)
        w   == OpenWrite(F, abs, content, sep)
    IN  IF ~pp.set
        THEN Returned(<<WriteErrorPrefix>> \o PathText(arg) \o <<": ", "TypeError">>, F)
        ELSE IF w.err # ""
        THEN Returned(<<WriteErrorPrefix>> \o PathText(arg) \o <<": ", w.err>>, w.fs)
        ELSE Returned(<<"Successfully wrote to ">> \o AbsText(abs) \o <<".">>, w.fs)

write_file(F, pp, arg, content, sep) ==
    LET abs == Join(pp, arg)
        m   == makedirs(F, Dirname(abs))
        w   == OpenWrite(m.fs, abs, content, sep)
    IN  IF ~pp.set
        THEN Returned(<<WriteErrorPrefix>> \o PathText(arg) \o <<": ", "TypeError">>, F)
        ELSE IF m.err # ""
        THEN Returned(<<WriteErrorPrefix>> \o PathText(arg) \o <<": ", m.err>>, m.fs)
        ELSE IF w.err # ""
        THEN Returned(<<WriteErrorPrefix>> \o PathText(arg) \o <<": ", w.err>>, w.fs)
        ELSE Returned(<<"Successfully wrote to ">> \o AbsText(abs) \o <<".">>, w.fs)

\* The entries of a directory.
Entries(F, dir) == { Last(q) : q \in { q \in DOMAIN F : q # <<>> /\ Front(q) = dir } }

\* "\n".join(files)
RECURSIVE JoinLines(_)
JoinLines(names) ==
    IF names = <<>> THEN <<>>
    ELSE IF Len(names) = 1 THEN <<names[1]>>
    ELSE <<Head(names), "LF">> \o JoinLines(Tail(names))

\* os.listdir gives the entries in arbitrary order: every order is a result.
Orders(S) == { o \in [1..Cardinality(S) -> S] : Range(o) = S }

list_directory(F, pp, arg, order) ==
    LET w == Resolve(F, Join(pp, arg))
        n == Node(F, w.path)
        e == IF w.err # "" THEN w.err
             ELSE IF n.kind = "absent" THEN "FileNotFoundError"
             ELSE IF n.kind = "file" THEN "NotADirectoryError"
             ELSE ""
    IN  IF ~pp.set
        THEN Returned(<<ListErrorPrefix>> \o PathText(arg) \o <<": ", "TypeError">>, F)
        ELSE IF e # ""
        THEN Returned(<<ListErrorPrefix>> \o PathText(arg) \o <<": ", e>>, F)
        ELSE Returned(JoinLines(order), F)

ListOrders(F, pp, arg) ==
    IF pp.set /\ Resolve(F, Join(pp, arg)).err = ""
       /\ Node(F, Resolve(F, Join(pp, arg)).path).kind = "dir"
    THEN Orders(Entries(F, Resolve(F, Join(pp, arg)).path))
    ELSE { <<>> }

----------------------------------------------------------------------------
(* Child processes.  A command is known by what it does: "o" and "e" are    *)
(* characters of its standard output and standard error.                   *)

\* The suffix of a file name.
Ext(name) ==
    CASE name \in {"a.ts"}                      -> "ts"
      [] name \in {"b.tsx"}                     -> "tsx"
      [] name \in {"c.js", "a.js", "b.js"}      -> "js"
      [] name \in {"k.{ts,tsx}", "old.{ts,tsx}"} -> "{ts,tsx}"
      [] name \in {"notes.txt"}                 -> "txt"
      [] OTHER                                  -> ""

\* What tsc names the JavaScript it emits for a source file.
JsName(name) == IF name = "b.tsx" THEN "b.js" ELSE "a.js"

Under(root, p) == IsPrefix(root, p) /\ p # root

\* The files the type-checker reads: the TypeScript sources of the project,
\* dependencies excluded.
Sources(F, root) ==
    { p \in DOMAIN F : /\ Under(root, p)
                       /\ F[p].kind = "file"
                       /\ Ext(Last(p)) \in {"ts", "tsx"}
                       /\ "node_modules" \notin Range(p) }

IllTyped(F, root) ==
    { p \in Sources(F, root) : Range(F[p].data) \cap {"y", "BAD"} # {} }

\* npx tsc: a function of the project tree; stderr carries what the toolchain
\* itself prints.  Without --noEmit it writes a .js file beside every source.
Tsc(F, root, noise, emit) ==
    LET bad == IllTyped(F, root)
        js  == { Append(Front(p), JsName(Last(p))) : p \in Sources(F, root) }
    IN  [hangs |-> FALSE,
         rc    |-> IF bad = {} THEN 0 ELSE 2,
         out   |-> IF bad = {} THEN <<>> ELSE <<"error TS", ToString(Cardinality(bad))>>,
         err   |-> noise,
         fs    |-> IF emit
                   THEN [q \in DOMAIN F \cup js |-> IF q \in js THEN File(<<"o">>) ELSE F[q]]
                   ELSE F]

Behaviour(command, F, root, noise) ==
    CASE command = "echo"
           -> [hangs |-> FALSE, rc |-> 0, out |-> <<"o", "CR", "LF">>, err |-> <<>>, fs |-> F]
      [] command = "exit 1"
           -> [hangs |-> FALSE, rc |-> 1, out |-> <<"o">>, err |-> <<"e">>, fs |-> F]
      [] command = "npm install"
           -> [hangs |-> FALSE, rc |-> 0, out |-> <<"o">>, err |-> <<"e">>,
               fs |-> Put(F, Append(root, "node_modules"), Dir)]
      [] command = "cat binary"
           -> [hangs |-> FALSE, rc |-> 1, out |-> <<"BAD">>, err |-> <<>>, fs |-> F]
      [] command = "sleep infinity"
           -> [hangs |-> TRUE, rc |-> 0, out |-> <<>>, err |-> <<>>, fs |-> F]
      [] command = "npx tsc --noEmit" -> Tsc(F, root, noise, FALSE)
      [] command = "npx tsc"          -> Tsc(F, root, noise, TRUE)

SuccessPrefix == "Command executed successfully. Output:\n"

FailurePrefix == "Command failed with exit code "

\* subprocess.run(command, cwd=project_path, check=True, capture_output=True,
\* text=True, shell=True): no timeout; only CalledProcessError is caught.
\* run_shell_command without its check of PROJECT_PATH: subprocess.run with
\* cwd=None starts the child in the directory the agent was started in.
run_shell_command_unguarded(F, pp, command, noise) ==
    LET b == Behaviour(command, F, IF pp.set THEN pp.parts ELSE <<"w">>, noise)
    IN  IF b.hangs THEN Blocked(b.fs)
        ELSE IF b.rc # 0
        THEN Returned(<<FailurePrefix, ToString(b.rc), ". Stderr:\n">>
                        \o UniversalNewlines(b.err) \o <<"\nStdout:\n">>
                        \o UniversalNewlines(b.out), b.fs)
        ELSE Returned(<<SuccessPrefix>> \o UniversalNewlines(b.out), b.fs)

run_shell_command(F, pp, command, noise) ==
    LET cwd == Resolve(F, pp.parts)
        b   == Behaviour(command, F, pp.parts, noise)
    IN  IF ~pp.set
        THEN Returned(<<"Error: PROJECT_PATH is not set in the .env file.">>, F)
        ELSE IF cwd.err # "" THEN Raised(cwd.err, F)
        ELSE IF Node(F, cwd.path).kind = "absent" THEN Raised("FileNotFoundError", F)
        ELSE IF Node(F, cwd.path).kind = "file" THEN Raised("NotADirectoryError", F)
        ELSE IF b.hangs THEN Blocked(b.fs)
        ELSE IF "BAD" \in Range(b.out) \cup Range(b.err)
        THEN Raised("UnicodeDecodeError", b.fs)
        ELSE IF b.rc # 0
        THEN Returned(<<FailurePrefix, ToString(b.rc), ". Stderr:\n">>
                        \o UniversalNewlines(b.err) \o <<"\nStdout:\n">>
                        \o UniversalNewlines(b.out), b.fs)
        ELSE Returned(<<SuccessPrefix>> \o UniversalNewlines(b.out), b.fs)

\* The type-checker run without --noEmit.
ValidateCommandEmitting == "npx tsc"

ValidateCommand == "npx tsc --noEmit"

validate_typescript_code(F, pp, noise) == run_shell_command(F, pp, ValidateCommand, noise)

----------------------------------------------------------------------------
(* Section 2 of the scripts: CodeIndexer *)

\* search_kwargs={"k": 5}
k == 5

\* RecursiveCharacterTextSplitter(chunk_size=1000, chunk_overlap=100), scaled.
chunk_size == 2

chunk_overlap == 1

\* The most chunks the persisted collection is let grow to.
MaxChunks == 7

\* self.project_path.parent / ".agent_vector_store"
VectorStorePath(pp) == Append(Front(pp.parts), ".agent_vector_store")

\* pathlib's glob has no brace expansion: "**/*.{ts,tsx}" matches, at any
\* depth, the names that end in the literal text ".{ts,tsx}".
GlobMatches(name) == Ext(name) = "{ts,tsx}"

\* DirectoryLoader skips hidden entries (load_hidden=False).
Hidden(name) == name \in {".agent_vector_store", ".git"}

\* loader.load(): the files the glob finds and TextLoader can read
\* (silent_errors=True drops the others).
Loaded(F, root) ==
    { p \in DOMAIN F : /\ Under(root, p)
                       /\ F[p].kind = "file"
                       /\ GlobMatches(Last(p))
                       /\ \A i \in (Len(root) + 1)..Len(p) : ~Hidden(p[i])
                       /\ OpenRead(F, p).err = "" }

\* 'node_modules' not in pathlib.Path(doc.metadata['source']).parts
Documents(F, root) == { p \in Loaded(F, root) : "node_modules" \notin Range(p) }

\* ts_splitter.split_documents: pieces of at most chunk_size, each starting
\* chunk_overlap before the end of the one before; nothing for an empty text.
RECURSIVE Split(_)
Split(t) ==
    IF t = <<>> THEN <<>>
    ELSE IF Len(t) <= chunk_size THEN <<t>>
    ELSE <<SubSeq(t, 1, chunk_size)>>
           \o Split(SubSeq(t, chunk_size - chunk_overlap + 1, Len(t)))

RECURSIVE SeqOf(_)
SeqOf(S) ==
    IF S = {} THEN <<>>
    ELSE LET x == CHOOSE y \in S : TRUE IN <<x>> \o SeqOf(S \ {x})

RECURSIVE ChunksOfDocs(_, _)
ChunksOfDocs(F, docs) ==
    IF docs = <<>> THEN <<>>
    ELSE LET pieces == Split(OpenRead(F, Head(docs)).text)
         IN  [i \in 1..Len(pieces) |-> [source |-> Head(docs), text |-> pieces[i]]]
               \o ChunksOfDocs(F, Tail(docs))

Chunks(F, root) == ChunksOfDocs(F, SeqOf(Documents(F, root)))

\* Chroma.from_documents(chunks, embeddings, persist_directory=...): opens the
\* collection "langchain" of the directory (get_or_create_collection) and adds
\* every chunk under a fresh uuid4.
from_documents(coll, chunks, nid) ==
    coll \cup { [id |-> nid + i, source |-> chunks[i].source, text |-> chunks[i].text]
                : i \in 1..Len(chunks) }

\* index_project: the collection, the id source and the warning it leaves.
index_project(F, pp, coll, nid) ==
    LET root   == Resolve(F, pp.parts)
        chunks == Chunks(F, pp.parts)
    IN  IF root.err # "" \/ Node(F, root.path).kind # "dir"
        THEN [kind |-> "raised", collection |-> coll, nextId |-> nid, warned |-> FALSE]
        ELSE IF Documents(F, pp.parts) = {}
        THEN [kind |-> "returned", collection |-> coll, nextId |-> nid, warned |-> TRUE]
        ELSE [kind |-> "returned", collection |-> from_documents(coll, chunks, nid),
              nextId |-> nid + Len(chunks), warned |-> FALSE]

\* Embedding distance between a query and a chunk, and the order of results.
Distance(q, t) ==
    Cardinality((Range(q) \ Range(t)) \cup (Range(t) \ Range(q)))

Closer(c, d, q) ==
    \/ Distance(q, c.text) < Distance(q, d.text)
    \/ Distance(q, c.text) = Distance(q, d.text) /\ c.id < d.id

RECURSIVE TopK(_, _, _)
TopK(coll, q, n) ==
    IF n = 0 \/ coll = {} THEN <<>>
    ELSE LET best == CHOOSE c \in coll : \A d \in coll \ {c} : Closer(c, d, q)
         IN  <<[source |-> best.source, text |-> best.text]>>
               \o TopK(coll \ {best}, q, n - 1)

\* retriever.get_relevant_documents(query)
get_relevant_documents(coll, q) == TopK(coll, q, k)

----------------------------------------------------------------------------
(* gemini.py: the schema analysis *)

\* The most content types of a schema export.
MaxTypes == 2

Field(uid, data_type) == [uid |-> uid, data_type |-> data_type]

ContentType(uid, fields) == [uid |-> uid, schema |-> fields]

\* The field lists of a content type (ct.get('schema', [])).
FieldLists ==
    { <<>>,
      <<Field("url", "text")>>,
      <<Field("sections", "modular_blocks")>>,
      <<Field("url", "text"), Field("sections", "modular_blocks")>>,
      <<Field("sections", "modular_blocks"), Field("title", "text"), Field("url", "text")>>,
      <<Field("url", "link"), Field("sections", "modular_blocks")>>,
      <<Field("title", "text"), Field("sections", "modular_blocks")>>,
      <<Field("url", "text"), Field("modular_blocks", "group")>> }

ContentTypes == { ContentType(u, f) : u \in {"page", "landing", "home"}, f \in FieldLists }

\* The schema exports of at most MaxTypes content types.
Schemas == UNION { [1..n -> ContentTypes] : n \in 0..MaxTypes }

\* if field.get('uid') == 'url' and field.get('data_type') == 'text'
has_url_field(ct) ==
    \E i \in 1..Len(ct.schema) :
        ct.schema[i].uid = "url" /\ ct.schema[i].data_type = "text"

\* A field named url, whatever its data type.
has_url_field_of_any_type(ct) ==
    \E i \in 1..Len(ct.schema) : ct.schema[i].uid = "url"

\* if field.get('data_type') == 'modular_blocks'
has_modular_blocks(ct) ==
    \E i \in 1..Len(ct.schema) : ct.schema[i].data_type = "modular_blocks"

\* find_page_content_type_uid that takes a url field of any data type.
RECURSIVE find_page_content_type_uid_any_url(_)
find_page_content_type_uid_any_url(data) ==
    IF data = <<>> THEN "page"
    ELSE IF has_url_field_of_any_type(Head(data)) /\ has_modular_blocks(Head(data))
    THEN Head(data).uid
    ELSE find_page_content_type_uid_any_url(Tail(data))

\* for ct in schema_data: ... return ct['uid']; return 'page'
RECURSIVE find_page_content_type_uid(_)
find_page_content_type_uid(data) ==
    IF data = <<>> THEN "page"
    ELSE IF has_url_field(Head(data)) /\ has_modular_blocks(Head(data))
    THEN Head(data).uid
    ELSE find_page_content_type_uid(Tail(data))

\* No inference request is being made.
NoRequest ==
    [target |-> <<>>, calls |-> 0, status |-> "idle", result |-> [none |-> TRUE, text |-> <<>>]]

----------------------------------------------------------------------------
(* The environments a run starts in *)

Workspace == <<"w">>

Root == <<"w", "proj">>

PathSet(parts) == [set |-> TRUE, parts |-> parts]

PathUnset == [set |-> FALSE, parts |-> <<>>]

Rel(parts) == [abs |-> FALSE, parts |-> parts]

\* pathlib.Path(os.getenv("SCHEMA_JSON_PATH"))
SchemaFile == Append(Workspace, "schema.json")

\* project_path.parent / "pages-components-list.txt"
MappingPath(pp) == Append(Front(pp.parts), "pages-components-list.txt")

\* The file in which Chroma keeps the records of the persisted collection.
StoreFile(pp) == Append(VectorStorePath(pp), "chroma.sqlite3")

\* The project the loop works on: one TypeScript source (with a type error),
\* one file that is not UTF-8; beside the project root a text file, the
\* schema, the page-to-component mapping and the persisted vector store.
LoopFs ==
    (Workspace :> Dir)
      @@ (Append(Workspace, "notes.txt") :> File(<<"x", "LF">>))
      @@ (SchemaFile :> File(<<"x">>))
      @@ (MappingPath(PathSet(Root)) :> File(<<"x">>))
      @@ (Append(Workspace, ".agent_vector_store") :> Dir)
      @@ (StoreFile(PathSet(Root)) :> File(<<"BAD">>))
      @@ (Root :> Dir)
      @@ (Append(Root, "a.ts") :> File(<<"y", "LF">>))
      @@ (Append(Root, "c.js") :> File(<<"BAD">>))

LoopCollection == { [id |-> 1, source |-> Append(Root, "k.{ts,tsx}"), text |-> <<"x">>] }

\* PROJECT_PATH, os.linesep and the toolchain's stderr.
Environments ==
    { [pp |-> PathSet(Root), sep |-> <<"LF">>, noise |-> <<>>],
      [pp |-> PathSet(Root), sep |-> <<"LF">>, noise |-> <<"e">>],
      [pp |-> PathSet(Root), sep |-> <<"CR", "LF">>, noise |-> <<>>],
      [pp |-> PathSet(<<"w", "gone">>), sep |-> <<"LF">>, noise |-> <<>>],
      [pp |-> PathUnset, sep |-> <<"LF">>, noise |-> <<>>] }

----------------------------------------------------------------------------
(* Section 4 of the scripts: the AgentExecutor loop *)

\* max_iterations=15000, scaled.
max_iterations == 2

Call(tool, path, content, command, query) ==
    [tool |-> tool, path |-> path, content |-> content, command |-> command,
     query |-> query]

NoCall == Call("", Rel(<<>>), <<>>, "", <<>>)

ReadPaths ==
    { Rel(<<"a.ts">>), Rel(<<"src", "lib", "b.tsx">>), Rel(<<"a.ts", "c.js">>),
      Rel(<<"..", "notes.txt">>), Rel(<<"c.js">>) }

WritePaths ==
    { Rel(<<"a.ts">>), Rel(<<"src", "lib", "b.tsx">>), Rel(<<"a.ts", "c.js">>),
      Rel(<<"..", "notes.txt">>), Rel(<<"src", "lib">>),
      Rel(<<"..", ".agent_vector_store", "chroma.sqlite3">>) }

ListPaths == { Rel(<<".">>), Rel(<<"src", "lib">>) }

Contents == { <<"x">>, <<"y", "CR", "LF">>, <<"SUR">> }

Commands == { "echo", "exit 1", "npm install", "cat binary", "sleep infinity" }

Queries == { <<"x">> }

\* tools = [read_file, write_file, list_directory, run_shell_command,
\*          validate_typescript_code, rag_tool], with the inputs the policy gives.
ToolCalls ==
    { Call("read_file", a, <<>>, "", <<>>) : a \in ReadPaths }
      \cup { Call("write_file", a, c, "", <<>>) : a \in WritePaths, c \in Contents }
      \cup { Call("list_directory", a, <<>>, "", <<>>) : a \in ListPaths }
      \cup { Call("run_shell_command", Rel(<<>>), <<>>, c, <<>>) : c \in Commands }
      \cup { Call("validate_typescript_code", Rel(<<>>), <<>>, "", <<>>) }
      \cup { Call("CodebaseRetriever", Rel(<<>>), <<>>, "", q) : q \in Queries }

\* str() of the retrieved documents.
RECURSIVE Flatten(_)
Flatten(docs) ==
    IF docs = <<>> THEN <<>> ELSE Head(docs).text \o Flatten(Tail(docs))

\* The orders os.listdir may give for a call (one, empty, for the other tools).
OrdersFor(call, F, pp) ==
    IF call.tool = "list_directory" THEN ListOrders(F, pp, call.path) ELSE { <<>> }

\* tool.run(action_input)
Exec(call, F, pp, sep, noise, coll, order) ==
    CASE call.tool = "read_file" -> read_file(F, pp, call.path)
      [] call.tool = "write_file" -> write_file(F, pp, call.path, call.content, sep)
      [] call.tool = "list_directory" -> list_directory(F, pp, call.path, order)
      [] call.tool = "run_shell_command" -> run_shell_command(F, pp, call.command, noise)
      [] call.tool = "validate_typescript_code" -> validate_typescript_code(F, pp, noise)
      [] call.tool = "CodebaseRetriever"
           -> Returned(Flatten(get_relevant_documents(coll, call.query)), F)

InitLoop ==
    /\ \E e \in Environments :
         /\ projectPath = e.pp
         /\ linesep = e.sep
         /\ stderrNoise = e.noise
    /\ schemaPath = PathSet(SchemaFile)
    /\ apiKey = TRUE
    /\ fs = LoopFs
    /\ pc = "planning"
    /\ inflight = NoCall
    /\ transcript = <<>>
    /\ iterations = 0
    /\ outcome = "none"
    /\ output = ""
    /\ collection = LoopCollection
    /\ nextId = 2
    /\ indexer = "indexed"
    /\ loaded = {}
    /\ warned = FALSE
    /\ retrieved = [done |-> FALSE, docs |-> <<>>]
    /\ schema_data = <<>>
    /\ pageUid = ""
    /\ api = NoRequest
    /\ todo = <<>>

envVars == << projectPath, linesep, stderrNoise, schemaPath, apiKey >>

indexVars == << collection, nextId, indexer, loaded, warned, retrieved >>

\* An executor that asks the policy again while a call is in flight and
\* dispatches what it answers.
PlanToolConcurrent ==
    /\ pc \in {"planning", "executing"}
    /\ iterations < max_iterations
    /\ \E call \in ToolCalls : inflight' = call
    /\ pc' = "executing"
    /\ UNCHANGED << fs, transcript, iterations, outcome, output, envVars, scriptVars, indexVars >>

\* The policy returns a tool call.
PlanTool ==
    /\ pc = "planning"
    /\ iterations < max_iterations
    /\ \E call \in ToolCalls : inflight' = call
    /\ pc' = "executing"
    /\ UNCHANGED << fs, transcript, iterations, outcome, output, envVars, scriptVars, indexVars >>

\* AgentExecutor(..., handle_parsing_errors=False): the library's default.
handle_parsing_errors_default == FALSE

\* AgentExecutor(..., handle_parsing_errors=True)
handle_parsing_errors == TRUE

\* An executor that records the corrective step without counting the iteration.
PlanMalformedUncounted ==
    /\ pc = "planning"
    /\ iterations < max_iterations
    /\ transcript' = Append(transcript,
                            [action |-> Call("_Exception", Rel(<<>>), <<>>, "", <<>>),
                             observation |-> <<"Invalid or incomplete response">>])
    /\ UNCHANGED << fs, pc, inflight, iterations, outcome, output, envVars, scriptVars, indexVars >>

\* The policy's output does not parse (OutputParserException).  With
\* handle_parsing_errors the executor records the step of the "_Exception"
\* tool, whose observation is the corrective text, and the loop goes on;
\* without it the executor raises ValueError out of invoke.
PlanMalformed ==
    /\ pc = "planning"
    /\ iterations < max_iterations
    /\ IF handle_parsing_errors
       THEN /\ transcript' = Append(transcript,
                                    [action |-> Call("_Exception", Rel(<<>>), <<>>, "", <<>>),
                                     observation |-> <<"Invalid or incomplete response">>])
            /\ iterations' = iterations + 1
            /\ UNCHANGED << pc, outcome >>
       ELSE /\ pc' = "aborted"
            /\ outcome' = "parse_error"
            /\ UNCHANGED << transcript, iterations >>
    /\ UNCHANGED << fs, inflight, output, envVars, scriptVars, indexVars >>

\* What the executor answers with when it stops the loop itself
\* (early_stopping_method="force").
StopText == "Agent stopped due to iteration limit or time limit."

\* The texts a policy may give as its final answer.
Answers == { "The mission is accomplished.", StopText }

\* The policy returns the final answer.
PlanFinal ==
    /\ pc = "planning"
    /\ iterations < max_iterations
    /\ pc' = "done"
    /\ outcome' = "final"
    /\ \E a \in Answers : output' = a
    /\ UNCHANGED << fs, inflight, transcript, iterations, envVars, scriptVars, indexVars >>

\* The inference call fails after its retries: invoke raises into main.
PlanFails ==
    /\ pc = "planning"
    /\ iterations < max_iterations
    /\ pc' = "aborted"
    /\ outcome' = "inference_failed"
    /\ UNCHANGED << fs, inflight, transcript, iterations, output, envVars, scriptVars, indexVars >>

\* The tool returns: its text is the observation of this iteration.
ExecuteReturn ==
    /\ pc = "executing"
    /\ \E order \in OrdersFor(inflight, fs, projectPath) :
         LET r == Exec(inflight, fs, projectPath, linesep, stderrNoise, collection, order)
         IN  /\ r.kind = "returned"
             /\ fs' = r.fs
             /\ transcript' = Append(transcript,
                                     [action |-> inflight, observation |-> r.text])
    /\ iterations' = iterations + 1
    /\ pc' = "planning"
    /\ inflight' = NoCall
    /\ UNCHANGED << outcome, output, envVars, scriptVars, indexVars >>

\* The tool raises: the exception leaves invoke and main reports it.
ExecuteRaise ==
    /\ pc = "executing"
    /\ \E order \in OrdersFor(inflight, fs, projectPath) :
         LET r == Exec(inflight, fs, projectPath, linesep, stderrNoise, collection, order)
         IN  /\ r.kind = "raised"
             /\ fs' = r.fs
    /\ pc' = "aborted"
    /\ outcome' = "tool_raised"
    /\ inflight' = NoCall
    /\ UNCHANGED << transcript, iterations, output, envVars, scriptVars, indexVars >>

\* The iteration budget is used up: the loop stops with its forced answer.
IterationCap ==
    /\ pc = "planning"
    /\ iterations >= max_iterations
    /\ pc' = "done"
    /\ outcome' = "cap"
    /\ output' = StopText
    /\ UNCHANGED << fs, inflight, transcript, iterations, envVars, scriptVars, indexVars >>

Next ==
    \/ PlanTool
    \/ PlanMalformed
    \/ PlanFinal
    \/ PlanFails
    \/ ExecuteReturn
    \/ ExecuteRaise
    \/ IterationCap

Spec == InitLoop /\ [][Next]_vars

\* agent_executor.invoke runs on the main thread of a live process: while a
\* step of the loop can be taken, one is taken.
SpecFair == Spec /\ WF_vars(Next)

----------------------------------------------------------------------------
(* Runs of the indexer over one persisted directory.  Between two runs the  *)
(* project tree may change; the directory beside it stays.                 *)

\* Project trees: everything at and under the project root.
Trees ==
    { \* an empty component directory
      (Root :> Dir),
      \* an ordinary project
      (Root :> Dir) @@ (Append(Root, "a.ts") :> File(<<"x", "x", "x">>))
        @@ (Append(Root, "src") :> Dir)
        @@ (Root \o <<"src", "b.tsx">> :> File(<<"x", "y">>)),
      \* files whose names the glob does match
      (Root :> Dir) @@ (Append(Root, "k.{ts,tsx}") :> File(<<"x", "x", "x">>)),
      (Root :> Dir) @@ (Append(Root, "old.{ts,tsx}") :> File(<<"y", "CR", "LF", "y">>))
        @@ (Append(Root, "a.ts") :> File(<<"x">>)),
      (Root :> Dir) @@ (Append(Root, "k.{ts,tsx}") :> File(<<"x">>))
        @@ (Append(Root, "node_modules") :> Dir)
        @@ (Root \o <<"node_modules", "k.{ts,tsx}">> :> File(<<"y">>)),
      \* no project root at all
      << >> }

IndexQueries == { <<"x", "x">>, <<"y">> }

Outside(F) == [p \in { q \in DOMAIN F : ~IsPrefix(Root, q) } |-> F[p]]

InitIndex ==
    /\ \E t \in Trees : fs = (Workspace :> Dir) @@ t
    /\ projectPath = PathSet(Root)
    /\ linesep = <<"LF">>
    /\ stderrNoise = <<>>
    /\ schemaPath = PathSet(SchemaFile)
    /\ apiKey = TRUE
    /\ pc = "indexing"
    /\ inflight = NoCall
    /\ transcript = <<>>
    /\ iterations = 0
    /\ outcome = "none"
    /\ output = ""
    /\ collection = {}
    /\ nextId = 1
    /\ indexer = "none"
    /\ loaded = {}
    /\ warned = FALSE
    /\ retrieved = [done |-> FALSE, docs |-> <<>>]
    /\ schema_data = <<>>
    /\ pageUid = ""
    /\ api = NoRequest
    /\ todo = <<>>

loopVars == << pc, inflight, transcript, iterations, outcome, output >>

\* CodeIndexer.__init__: Chroma opens (and creates) the persisted directory
\* and the collection it holds.
NewIndexer ==
    /\ indexer = "none"
    /\ indexer' = "constructed"
    /\ fs' = makedirs(fs, VectorStorePath(projectPath)).fs
    /\ warned' = FALSE
    /\ retrieved' = [done |-> FALSE, docs |-> <<>>]
    /\ UNCHANGED << collection, nextId, loaded, envVars, scriptVars, loopVars >>

IndexProject ==
    /\ indexer = "constructed"
    /\ LET r == index_project(fs, projectPath, collection, nextId)
       IN  /\ r.kind = "returned"
           /\ Cardinality(r.collection) <= MaxChunks
           /\ collection' = r.collection
           /\ nextId' = r.nextId
           /\ warned' = r.warned
    /\ indexer' = "indexed"
    /\ UNCHANGED << fs, loaded, retrieved, envVars, scriptVars, loopVars >>

\* loader.load() raises when the project root is no directory.
IndexProjectRaises ==
    /\ indexer = "constructed"
    /\ index_project(fs, projectPath, collection, nextId).kind = "raised"
    /\ indexer' = "crashed"
    /\ UNCHANGED << fs, collection, nextId, loaded, warned, retrieved, envVars, scriptVars, loopVars >>

Retrieve ==
    /\ indexer = "indexed"
    /\ \E q \in IndexQueries :
         retrieved' = [done |-> TRUE, docs |-> get_relevant_documents(collection, q)]
    /\ UNCHANGED << fs, collection, nextId, indexer, loaded, warned, envVars, scriptVars, loopVars >>

\* The process ends; the persisted directory stays.
EndRun ==
    /\ indexer \in {"indexed", "crashed"}
    /\ indexer' = "none"
    /\ retrieved' = [done |-> FALSE, docs |-> <<>>]
    /\ warned' = FALSE
    /\ UNCHANGED << fs, collection, nextId, loaded, envVars, scriptVars, loopVars >>

\* Between runs the project tree is replaced by another.
EditTree ==
    /\ indexer = "none"
    /\ \E t \in Trees :
         /\ fs' = Outside(fs) @@ t
         /\ fs' # fs
    /\ UNCHANGED << collection, nextId, indexer, loaded, warned, retrieved, envVars, scriptVars, loopVars >>

NextIndex ==
    \/ NewIndexer
    \/ IndexProject
    \/ IndexProjectRaises
    \/ Retrieve
    \/ EndRun
    \/ EditTree

SpecIndex == InitIndex /\ [][NextIndex]_vars

----------------------------------------------------------------------------
(* main(): the configuration, the indexing and the loop of one run *)

Without(F, p) == [q \in DOMAIN F \ {p} |-> F[q]]

\* What a run finds on disk: the loop's project with two files the glob
\* matches, the same with the schema or the mapping missing, and a first run
\* (no vector store yet) with the mapping missing.
MainFs ==
    LoopFs @@ (Append(Root, "k.{ts,tsx}") :> File(<<"x", "x">>))
           @@ (Append(Root, "src") :> Dir)
           @@ (Root \o <<"src", "old.{ts,tsx}">> :> File(<<"y">>))

FirstRunFs ==
    Without(Without(Without(MainFs, MappingPath(PathSet(Root))), StoreFile(PathSet(Root))),
            VectorStorePath(PathSet(Root)))

MainTrees ==
    { MainFs, Without(MainFs, SchemaFile), Without(MainFs, MappingPath(PathSet(Root))),
      FirstRunFs }

\* The .env file: PROJECT_PATH, SCHEMA_JSON_PATH, GEMINI_API_KEY.
Configurations ==
    [ pp     : { PathSet(Root), PathSet(<<"w", "gone">>), PathUnset },
      schema : { PathSet(SchemaFile), PathUnset },
      key    : BOOLEAN ]

InitMain ==
    /\ \E c \in Configurations :
         /\ projectPath = c.pp
         /\ schemaPath = c.schema
         /\ apiKey = c.key
    /\ \E t \in MainTrees : fs = t
    /\ linesep = <<"LF">>
    /\ stderrNoise = <<>>
    /\ pc = "main"
    /\ inflight = NoCall
    /\ transcript = <<>>
    /\ iterations = 0
    /\ outcome = "none"
    /\ output = ""
    /\ collection = LoopCollection
    /\ nextId = 2
    /\ indexer = "none"
    /\ loaded = {}
    /\ warned = FALSE
    /\ retrieved = [done |-> FALSE, docs |-> <<>>]
    /\ schema_data = <<>>
    /\ pageUid = ""
    /\ api = NoRequest
    /\ todo = <<>>

\* if not all([project_path_str, os.getenv("GEMINI_API_KEY")]): print; return
CheckEnvironment ==
    /\ pc = "main"
    /\ IF projectPath.set /\ apiKey
       THEN pc' = "paths" /\ UNCHANGED outcome
       ELSE pc' = "exited" /\ outcome' = "config_error"
    /\ UNCHANGED << fs, inflight, transcript, iterations, output, envVars, scriptVars, indexVars >>

\* pathlib.Path(project_path_str); pathlib.Path(schema_path_str), which raises
\* TypeError for None; nothing around it catches.
MakePaths ==
    /\ pc = "paths"
    /\ IF schemaPath.set
       THEN pc' = "construct" /\ UNCHANGED outcome
       ELSE pc' = "exited" /\ outcome' = "uncaught"
    /\ UNCHANGED << fs, inflight, transcript, iterations, output, envVars, scriptVars, indexVars >>

\* indexer = CodeIndexer(project_path_str, embeddings)
ConstructIndexer ==
    /\ pc = "construct"
    /\ indexer = "none"
    /\ indexer' = "constructed"
    /\ fs' = makedirs(fs, VectorStorePath(projectPath)).fs
    /\ pc' = "index"
    /\ UNCHANGED << inflight, transcript, iterations, outcome, output, envVars, scriptVars,
                    collection, nextId, loaded, warned, retrieved >>

\* What the glob finds under the root, hidden entries left out.
GlobFound(F, root) ==
    { p \in DOMAIN F : /\ Under(root, p)
                       /\ F[p].kind = "file"
                       /\ GlobMatches(Last(p))
                       /\ \A i \in (Len(root) + 1)..Len(p) : ~Hidden(p[i]) }

\* indexer.index_project() starts: loader.load() raises when the root is no
\* directory (outside main's try), else hands the files to its thread pool.
StartLoad ==
    /\ pc = "index"
    /\ indexer = "constructed"
    /\ IF index_project(fs, projectPath, collection, nextId).kind = "raised"
       THEN /\ indexer' = "crashed"
            /\ pc' = "exited"
            /\ outcome' = "uncaught"
       ELSE /\ indexer' = "loading"
            /\ UNCHANGED << pc, outcome >>
    /\ loaded' = {}
    /\ UNCHANGED << fs, inflight, transcript, iterations, output, envVars, scriptVars,
                    collection, nextId, warned, retrieved >>

\* use_multithreading=True: the pool's workers finish the files in any order.
LoadFile ==
    /\ indexer = "loading"
    /\ \E p \in GlobFound(fs, projectPath.parts) \ loaded : loaded' = loaded \cup {p}
    /\ UNCHANGED << fs, envVars, scriptVars, loopVars, collection, nextId, indexer, warned, retrieved >>

\* The pool is joined (the with block of load ends) when every file is done.
PoolJoined == loaded = GlobFound(fs, projectPath.parts)

\* The rest of index_project: filter, split, store, persist.
FinishIndex ==
    /\ indexer = "loading"
    /\ PoolJoined
    /\ LET r == index_project(fs, projectPath, collection, nextId)
       IN  /\ collection' = r.collection
           /\ nextId' = r.nextId
           /\ warned' = r.warned
    /\ indexer' = "indexed"
    /\ UNCHANGED << fs, envVars, scriptVars, loopVars, loaded, retrieved >>

\* index_project run on a thread of its own, which main does not wait for.
IndexStarted == indexer \in {"loading", "indexed"}

\* indexer.index_project() is an ordinary call: main goes on when it returns.
IndexReturned == indexer = "indexed"

\* retriever = indexer.get_retriever(), the tools, the agent and its executor.
GetRetriever ==
    /\ pc = "index"
    /\ IndexReturned
    /\ pc' = "inputs"
    /\ UNCHANGED << fs, inflight, transcript, iterations, outcome, output, envVars, scriptVars, indexVars >>

\* schema_path.read_text(), mapping_file_path.read_text(), then
\* agent_executor.invoke; except FileNotFoundError / except Exception.
ReadInputs ==
    /\ pc = "inputs"
    /\ LET schema  == OpenRead(fs, schemaPath.parts)
           mapping == OpenRead(fs, MappingPath(projectPath))
           err     == IF schema.err # "" THEN schema.err ELSE mapping.err
       IN  IF err = ""
           THEN pc' = "planning" /\ UNCHANGED outcome
           ELSE /\ pc' = "exited"
                /\ outcome' = IF err = "FileNotFoundError"
                              THEN "file_not_found" ELSE "unexpected"
    /\ UNCHANGED << fs, inflight, transcript, iterations, output, envVars, scriptVars, indexVars >>

NextMain ==
    \/ CheckEnvironment
    \/ MakePaths
    \/ ConstructIndexer
    \/ StartLoad
    \/ LoadFile
    \/ FinishIndex
    \/ GetRetriever
    \/ ReadInputs
    \/ Next

SpecMain == InitMain /\ [][NextMain]_vars

----------------------------------------------------------------------------
(* gemini.py: find_page_content_type_uid over schema exports *)

InitSchema ==
    /\ schema_data \in Schemas
    /\ pageUid = ""
    /\ pc = "analyzing"
    /\ fs = (Workspace :> Dir)
    /\ projectPath = PathSet(Root)
    /\ linesep = <<"LF">>
    /\ stderrNoise = <<>>
    /\ schemaPath = PathSet(SchemaFile)
    /\ apiKey = TRUE
    /\ inflight = NoCall
    /\ transcript = <<>>
    /\ iterations = 0
    /\ outcome = "none"
    /\ output = ""
    /\ collection = {}
    /\ nextId = 1
    /\ indexer = "none"
    /\ loaded = {}
    /\ warned = FALSE
    /\ retrieved = [done |-> FALSE, docs |-> <<>>]
    /\ api = NoRequest
    /\ todo = <<>>

\* page_content_type_uid = find_page_content_type_uid(schema_data)
AnalyzeSchema ==
    /\ pc = "analyzing"
    /\ pageUid' = find_page_content_type_uid(schema_data)
    /\ pc' = "analyzed"
    /\ UNCHANGED << fs, inflight, transcript, iterations, outcome, output, envVars,
                    indexVars, schema_data, api, todo >>

NextSchema == AnalyzeSchema

SpecSchema == InitSchema /\ [][NextSchema]_vars

----------------------------------------------------------------------------
(* gemini.py: the one-shot integration script.  Generated code is text      *)
(* whose tokens are lines or the phrases validate_generated_code looks for; *)
(* " " is white space and "FENCE" is the three backquotes of a code block.  *)

\* A retry loop that allows one more attempt.
max_retries_one_more == 3 + 1

\* make_api_call_with_retry(model, prompt, max_retries=3)
max_retries == 3

IsSpace(tok) == tok \in {" ", "LF", "CR"}

\* str.strip()
RECURSIVE LStrip(_)
LStrip(t) == IF t # <<>> /\ IsSpace(Head(t)) THEN LStrip(Tail(t)) ELSE t

RECURSIVE RStrip(_)
RStrip(t) == IF t # <<>> /\ IsSpace(Last(t)) THEN RStrip(Front(t)) ELSE t

Strip(t) == RStrip(LStrip(t))

\* str.split('\n'): the lines of a text, one (empty) line for the empty text.
RECURSIVE SplitLines(_, _)
SplitLines(t, line) ==
    IF t = <<>> THEN <<line>>
    ELSE IF Head(t) = "LF" THEN <<line>> \o SplitLines(Tail(t), <<>>)
    ELSE SplitLines(Tail(t), Append(line, Head(t)))

\* '\n'.join(lines)
RECURSIVE JoinText(_)
JoinText(lines) ==
    IF lines = <<>> THEN <<>>
    ELSE IF Len(lines) = 1 THEN lines[1]
    ELSE lines[1] \o <<"LF">> \o JoinText(Tail(lines))

Fences == {"FENCE", "FENCE typescript"}

\* clean_gemini_response(response_text)
clean_gemini_response(response_text) ==
    LET lines == SplitLines(Strip(response_text), <<>>)
        body  == IF lines # <<>> /\ Strip(lines[1]) # <<>> /\ Head(Strip(lines[1])) \in Fences
                 THEN Tail(lines) ELSE lines
        rest  == IF body # <<>> /\ Strip(Last(body)) = <<"FENCE">>
                 THEN Front(body) ELSE body
    IN  JoinText(rest)

\* The phrases of validate_generated_code that a token of code contains.
Phrases(tok) ==
    CASE tok = "const entry = result.entries[0];"
           -> {"const entry = result.entries[0];", "result.entries[0]", "entry"}
      [] tok = "data?.image?.url &&" -> {"data?.image?.url &&", "data?.image?.url", "data?"}
      [] tok = "data?.image?.url"    -> {"data?.image?.url", "data?"}
      [] tok \in {"result.entries[0]", "addEditableTags", "entry", "data?", "data.",
                  "Image", "width"}  -> {tok}
      [] OTHER -> {}

\* needle in code
In(needle, code) == \E i \in 1..Len(code) : needle \in Phrases(code[i])

\* validate_generated_code(code, file_type)
validate_generated_code(code, file_type) ==
    LET query     == \/ ( In("result.entries[0]", code)
                          /\ ~In("const entry = result.entries[0];", code) )
                     \/ (In("addEditableTags", code) /\ ~In("entry", code))
        component == \/ (~In("data?", code) /\ In("data.", code))
                     \/ (In("Image", code) /\ ~In("width", code))
                     \/ ( In("data?.image?.url", code)
                          /\ ~In("data?.image?.url &&", code) )
    IN  IF code = <<>> THEN FALSE
        ELSE IF file_type = "query" /\ query THEN FALSE
        ELSE IF file_type = "component" /\ component THEN FALSE
        ELSE TRUE

\* A script that writes only the code that passes validate_generated_code.
write_if_valid(code, file_type) ==
    [write |-> validate_generated_code(code, file_type), text |-> code]

\* if validate_generated_code(...): write  else: "writing anyway", write
write_validated(code, file_type) ==
    IF validate_generated_code(code, file_type)
    THEN [write |-> TRUE, text |-> code]
    ELSE [write |-> TRUE, text |-> code]

\* What model.generate_content may do in one attempt: answer with text, answer
\* with no parts, fail, or fail on the API key.
Responses ==
    { <<"x">>,
      <<"FENCE typescript", "LF", "data.", "LF", "FENCE">>,
      <<"FENCE", "LF", "FENCE">>,
      <<"FENCE", "LF", " ", "LF", "FENCE">>,
      <<"result.entries[0]", "LF">> }

None == [none |-> TRUE, text |-> <<>>]

Text(t) == [none |-> FALSE, text |-> t]

\* if generated_code:
Truthy(r) == ~r.none /\ r.text # <<>>

Request(target) == [target |-> target, calls |-> 0, status |-> "calling", result |-> None]

\* subprocess.run(..., check=False): the exit status is not looked at.
run_command_unchecked(rc) == [raised |-> FALSE]

\* run_command: subprocess.run(command, cwd=cwd, check=True, ...); raise e
run_command(rc) == [raised |-> rc # 0]

Src(pp) == Append(pp.parts, "src")

TypesFile(pp) == Src(pp) \o <<"types", "contentstack.d.ts">>

QueriesDir(pp) == Append(Src(pp), "queries")

AppDir(pp) == Append(Src(pp), "app")

SectionsDir(pp) == Src(pp) \o <<"components", "sections">>

\* list(app_dir.rglob("**/page.tsx")) + list(app_dir.rglob("**/layout.tsx"))
AppFiles(F, pp) ==
    { p \in DOMAIN F : /\ Under(AppDir(pp), p)
                       /\ F[p].kind = "file"
                       /\ Last(p) \in {"page.tsx", "layout.tsx"} }

\* list(sections_dir.rglob("*.tsx")) + list(sections_dir.rglob("*.jsx"))
SectionFiles(F, pp) ==
    { p \in DOMAIN F : /\ Under(SectionsDir(pp), p)
                       /\ F[p].kind = "file"
                       /\ Ext(Last(p)) \in {"tsx", "jsx"} }

\* The project the script is run on: a root page, a page that is not UTF-8,
\* one section component and the configuration create_core_files removes.
ScriptFs ==
    (Workspace :> Dir)
      @@ (SchemaFile :> File(<<"x">>))
      @@ (Root :> Dir)
      @@ (Append(Root, "next.config.js") :> File(<<"x">>))
      @@ (Append(Root, "src") :> Dir)
      @@ (Root \o <<"src", "app">> :> Dir)
      @@ (Root \o <<"src", "app", "page.tsx">> :> File(<<"x", "LF">>))
      @@ (Root \o <<"src", "app", "[[...slug]]">> :> Dir)
      @@ (Root \o <<"src", "app", "[[...slug]]", "page.tsx">> :> File(<<"BAD">>))
      @@ (Root \o <<"src", "components">> :> Dir)
      @@ (Root \o <<"src", "components", "sections">> :> Dir)
      @@ (Root \o <<"src", "components", "sections", "b.tsx">> :> File(<<"x", "LF">>))

ScriptSchemas ==
    { <<ContentType("landing", <<Field("url", "text"), Field("sections", "modular_blocks")>>)>> }

ScriptConfigurations ==
    [ pp     : { PathSet(Root), PathSet(<<"w", "gone">>), PathUnset },
      schema : { PathSet(SchemaFile), PathSet(<<"w", "none.json">>), PathUnset },
      key    : BOOLEAN ]

InitScript ==
    /\ \E c \in ScriptConfigurations :
         /\ projectPath = c.pp
         /\ schemaPath = c.schema
         /\ apiKey = c.key
    /\ schema_data \in ScriptSchemas
    /\ fs = ScriptFs
    /\ linesep = <<"LF">>
    /\ stderrNoise = <<>>
    /\ pc = "g_main"
    /\ pageUid = ""
    /\ api = NoRequest
    /\ todo = <<>>
    /\ inflight = NoCall
    /\ transcript = <<>>
    /\ iterations = 0
    /\ outcome = "none"
    /\ output = ""
    /\ collection = {}
    /\ nextId = 1
    /\ indexer = "none"
    /\ loaded = {}
    /\ warned = FALSE
    /\ retrieved = [done |-> FALSE, docs |-> <<>>]

\* What the agent's loop and indexer keep, which the script leaves alone.
agentVars == << inflight, transcript, iterations, output, envVars, indexVars >>

\* The script ends: return, or the except of main.
Exit(how) == pc' = "exited" /\ outcome' = how

\* if not all([project_path_str, schema_path_str]): print; return
\* if not project_path.is_dir() or not schema_path.is_file(): print; return
ScriptCheckPaths ==
    /\ pc = "g_main"
    /\ IF /\ projectPath.set
          /\ schemaPath.set
          /\ Exists(fs, projectPath.parts)
          /\ Node(fs, Resolve(fs, projectPath.parts).path).kind = "dir"
          /\ Exists(fs, schemaPath.parts)
          /\ Node(fs, Resolve(fs, schemaPath.parts).path).kind = "file"
       THEN pc' = "g_configure" /\ UNCHANGED outcome
       ELSE Exit("config_error")
    /\ UNCHANGED << fs, agentVars, scriptVars >>

\* model = configure_gemini(); schema_content = ...; json.loads(schema_content)
ConfigureGemini ==
    /\ pc = "g_configure"
    /\ IF apiKey /\ OpenRead(fs, schemaPath.parts).err = ""
       THEN pc' = "g_setup" /\ UNCHANGED outcome
       ELSE Exit("script_error")
    /\ UNCHANGED << fs, agentVars, scriptVars >>

\* dir_path.mkdir(parents=True, exist_ok=True) for the four directories
setup_project_structure ==
    /\ pc = "g_setup"
    /\ LET d1 == makedirs(fs, Append(Src(projectPath), "lib")).fs
           d2 == makedirs(d1, SectionsDir(projectPath)).fs
           d3 == makedirs(d2, QueriesDir(projectPath)).fs
       IN  fs' = makedirs(d3, Append(Src(projectPath), "types")).fs
    /\ pc' = "g_core"
    /\ UNCHANGED << outcome, agentVars, scriptVars >>

CoreFiles(pp) ==
    { Src(pp) \o <<"lib", "contentstackClient.ts">>,
      Src(pp) \o <<"components", "LivePreviewInit.tsx">>,
      Append(pp.parts, "next.config.mjs"),
      Append(pp.parts, ".env.local") }

\* js_config_path.unlink() if it exists; file_path.write_text(content.strip())
create_core_files ==
    /\ pc = "g_core"
    /\ fs' = [p \in (DOMAIN fs \ {Append(projectPath.parts, "next.config.js")})
                      \cup CoreFiles(projectPath)
                |-> IF p \in CoreFiles(projectPath) THEN File(<<"core">>) ELSE fs[p]]
    /\ pc' = "g_install"
    /\ UNCHANGED << outcome, agentVars, scriptVars >>

\* run_command(install_sdks_command, cwd=project_path, ...)
InstallSdks ==
    /\ pc = "g_install"
    /\ \E rc \in {0, 1} :
         IF run_command(rc).raised
         THEN Exit("install_failed") /\ UNCHANGED fs
         ELSE /\ fs' = IF rc = 0
                       THEN Put(fs, Append(projectPath.parts, "node_modules"), Dir)
                       ELSE fs
              /\ pc' = "g_types"
              /\ UNCHANGED outcome
    /\ UNCHANGED << agentVars, scriptVars >>

\* One pass of the loop of make_api_call_with_retry: model.generate_content,
\* then return, continue after time.sleep(5), return None, or raise.
ApiAttempt ==
    /\ api.status = "calling"
    /\ api.calls < max_retries
    /\ \E how \in {"text", "empty", "error", "key_error"} :
         LET attempt == api.calls
             more    == [api EXCEPT !.calls = attempt + 1]
             gaveUp  == [api EXCEPT !.calls = attempt + 1, !.status = "returned",
                                    !.result = None]
         IN  CASE how = "text"
                    -> /\ \E r \in Responses :
                            api' = [api EXCEPT !.calls = attempt + 1,
                                               !.status = "returned",
                                               !.result = Text(clean_gemini_response(r))]
                       /\ UNCHANGED << pc, outcome >>
               [] how = "empty"
                    -> /\ api' = IF attempt + 1 < max_retries THEN more ELSE gaveUp
                       /\ UNCHANGED << pc, outcome >>
               [] how = "error"
                    -> /\ api' = IF attempt < max_retries - 1 THEN more ELSE gaveUp
                       /\ UNCHANGED << pc, outcome >>
               [] how = "key_error"
                    -> /\ api' = [api EXCEPT !.calls = attempt + 1, !.status = "raised"]
                       /\ Exit("script_error")
    /\ UNCHANGED << fs, agentVars, schema_data, pageUid, todo >>

\* generate_typescript_types, up to its call of make_api_call_with_retry
GenerateTypesCall ==
    /\ pc = "g_types"
    /\ api.status = "idle"
    /\ api' = Request(TypesFile(projectPath))
    /\ UNCHANGED << fs, pc, outcome, agentVars, schema_data, pageUid, todo >>

\* if generated_types: write_text(generated_types.strip()); else return None,
\* and main halts.
GenerateTypesDone ==
    /\ pc = "g_types"
    /\ api.status = "returned"
    /\ IF Truthy(api.result)
       THEN /\ fs' = OpenWrite(fs, api.target, Strip(api.result.text), linesep).fs
            /\ pc' = "g_uid"
            /\ UNCHANGED outcome
       ELSE Exit("halted") /\ UNCHANGED fs
    /\ api' = NoRequest
    /\ UNCHANGED << agentVars, schema_data, pageUid, todo >>

\* page_content_type_uid = find_page_content_type_uid(schema_data)
FindPageUid ==
    /\ pc = "g_uid"
    /\ pageUid' = find_page_content_type_uid(schema_data)
    /\ pc' = "g_query_page"
    /\ UNCHANGED << fs, outcome, agentVars, schema_data, api, todo >>

\* get_page_query_dynamic_snippet
PageQuerySnippet(uid) ==
    <<"LF", "const entry = result.entries[0];", "LF", "addEditableTags", uid, "LF">>

\* generate_query_files, "Page": the snippet is written, no inference call.
WritePageQuery ==
    /\ pc = "g_query_page"
    /\ LET w == write_validated(PageQuerySnippet(pageUid), "query")
       IN  fs' = IF w.write
                 THEN OpenWrite(fs, Append(QueriesDir(projectPath), "getPage.ts"),
                                Strip(w.text), linesep).fs
                 ELSE fs
    /\ pc' = "g_query_header"
    /\ UNCHANGED << outcome, agentVars, scriptVars >>

QueryFile(pp, stage) ==
    Append(QueriesDir(pp), IF stage = "g_query_header" THEN "getHeader.ts" ELSE "getFooter.ts")

\* generate_query_files, "Header" and "Footer": the inference call
GenerateQueryCall ==
    /\ pc \in {"g_query_header", "g_query_footer"}
    /\ api.status = "idle"
    /\ api' = Request(QueryFile(projectPath, pc))
    /\ UNCHANGED << fs, pc, outcome, agentVars, schema_data, pageUid, todo >>

\* if generated_code: validate, then write_text(generated_code.strip())
GenerateQueryDone ==
    /\ pc \in {"g_query_header", "g_query_footer"}
    /\ api.status = "returned"
    /\ LET w == write_validated(api.result.text, "query")
       IN  fs' = IF Truthy(api.result) /\ w.write
                 THEN OpenWrite(fs, api.target, Strip(w.text), linesep).fs
                 ELSE fs
    /\ pc' = IF pc = "g_query_header" THEN "g_query_footer" ELSE "g_refactor"
    /\ api' = NoRequest
    /\ UNCHANGED << outcome, agentVars, schema_data, pageUid, todo >>

\* refactor_project_files: files_to_refactor, and later section_files
ListFiles ==
    /\ \/ /\ pc = "g_refactor"
          /\ todo' \in Orders(AppFiles(fs, projectPath))
          /\ pc' = "g_app"
       \/ /\ pc = "g_app"
          /\ todo = <<>>
          /\ api.status = "idle"
          /\ todo' \in Orders(SectionFiles(fs, projectPath))
          /\ pc' = "g_sections"
    /\ UNCHANGED << fs, outcome, agentVars, schema_data, pageUid, api >>

FileType(stage) == IF stage = "g_app" THEN "page" ELSE "component"

\* original_content = file_path.read_text(encoding='utf-8'); except
\* UnicodeDecodeError: continue; else the inference call
RefactorRead ==
    /\ pc \in {"g_app", "g_sections"}
    /\ api.status = "idle"
    /\ todo # <<>>
    /\ IF OpenRead(fs, Head(todo)).err = "UnicodeDecodeError"
       THEN todo' = Tail(todo) /\ UNCHANGED api
       ELSE api' = Request(Head(todo)) /\ UNCHANGED todo
    /\ UNCHANGED << fs, pc, outcome, agentVars, schema_data, pageUid >>

\* if modified_content: validate, then file_path.write_text(modified_content)
RefactorDone ==
    /\ pc \in {"g_app", "g_sections"}
    /\ api.status = "returned"
    /\ LET w == write_validated(api.result.text, FileType(pc))
       IN  fs' = IF Truthy(api.result) /\ w.write
                 THEN OpenWrite(fs, api.target, w.text, linesep).fs
                 ELSE fs
    /\ todo' = Tail(todo)
    /\ api' = NoRequest
    /\ UNCHANGED << pc, outcome, agentVars, schema_data, pageUid >>

\* "6. Running final validation...": the files are read and checked, warnings
\* are printed.
FinalValidation ==
    /\ pc = "g_sections"
    /\ todo = <<>>
    /\ api.status = "idle"
    /\ Exit("complete")
    /\ UNCHANGED << fs, agentVars, scriptVars >>

NextScript ==
    \/ ScriptCheckPaths
    \/ ConfigureGemini
    \/ setup_project_structure
    \/ create_core_files
    \/ InstallSdks
    \/ ApiAttempt
    \/ GenerateTypesCall
    \/ GenerateTypesDone
    \/ FindPageUid
    \/ WritePageQuery
    \/ GenerateQueryCall
    \/ GenerateQueryDone
    \/ ListFiles
    \/ RefactorRead
    \/ RefactorDone
    \/ FinalValidation

SpecScript == InitScript /\ [][NextScript]_vars

----------------------------------------------------------------------------
(* The tool contracts, under Spec *)

\* The step in which the tool in flight returns.
Returns(tool) == pc = "executing" /\ inflight.tool = tool /\ pc' = "planning"

\* The child process of a run_shell_command or validate call is started:
\* PROJECT_PATH is set and names a directory.
ChildStarts ==
    /\ projectPath.set
    /\ Resolve(fs, projectPath.parts).err = ""
    /\ Node(fs, Resolve(fs, projectPath.parts).path).kind = "dir"

\* C1: every tool operation is total: whatever the input, the file system and
\* the child process do, the call in flight gives back a result string and
\* raises nothing into the agent loop.
C1_EveryToolCallReturns ==
    pc = "executing" =>
        \A order \in OrdersFor(inflight, fs, projectPath) :
            Exec(inflight, fs, projectPath, linesep, stderrNoise, collection, order).kind
                # "raised"

\* C2: read(path) on a path that does not exist gives the error text (a
\* string that starts with the error prefix), the run is not aborted and the
\* file system is unchanged.
C2_ReadMissingIsErrorText ==
    [][ ( /\ pc = "executing"
          /\ inflight.tool = "read_file"
          /\ (~projectPath.set \/ ~Exists(fs, Join(projectPath, inflight.path))) )
        => ( /\ pc' = "planning"
             /\ outcome' = "none"
             /\ Len(transcript') = Len(transcript) + 1
             /\ Last(transcript').action = inflight
             /\ Last(transcript').observation[1] = ReadErrorPrefix
             /\ fs' = fs ) ]_vars

\* read("src/lib/b.tsx"), which does not exist, has returned its error text.
C2_Witness ==
    /\ transcript # <<>>
    /\ Last(transcript).action.tool = "read_file"
    /\ Last(transcript).action.path = Rel(<<"src", "lib", "b.tsx">>)
    /\ projectPath.set
    /\ ~Exists(fs, Join(projectPath, Last(transcript).action.path))
    /\ Last(transcript).observation[1] = ReadErrorPrefix
    /\ Last(Last(transcript).observation) = "FileNotFoundError"
    /\ pc = "planning"

\* The paths a write creates or changes: the file and the directories above it.
Touched(F, comps) ==
    { q \in DOMAIN F : \E i \in 1..Len(comps) : Resolve(F, SubSeq(comps, 1, i)).path = q }

\* write(p, c) did what the claim says: confirmation, the directories above the
\* file exist, read(p) gives back `back`, and nothing else changed.
WroteAndReadsBack(back) ==
    LET abs == Join(projectPath, inflight.path)
    IN  /\ pc' = "planning"
        /\ Last(transcript').action = inflight
        /\ Last(transcript').observation[1] = "Successfully wrote to "
        /\ \A i \in 1..(Len(abs) - 1) :
             /\ Resolve(fs', SubSeq(abs, 1, i)).err = ""
             /\ Node(fs', Resolve(fs', SubSeq(abs, 1, i)).path).kind = "dir"
        /\ read_file(fs', projectPath, inflight.path).text = back
        /\ \A q \in DOMAIN fs : q # Resolve(fs', abs).path => fs'[q] = fs[q]
        /\ \A q \in DOMAIN fs' \ DOMAIN fs :
             q \in Touched(fs', abs) /\ (q # Resolve(fs', abs).path => fs'[q] = Dir)

\* C3 as claimed: for every relative path p and every content c, write(p, c)
\* returns a confirmation, creates the missing directories, a following
\* read(p) returns exactly c, and all other files are unchanged.
C3_WriteThenReadAnyPath ==
    [][ ( /\ pc = "executing"
          /\ inflight.tool = "write_file"
          /\ ~inflight.path.abs
          /\ projectPath.set )
        => WroteAndReadsBack(inflight.content) ]_vars

\* No component of the path but the last names a regular file.
NoFileOnTheWay(F, comps) ==
    \A i \in 1..(Len(comps) - 1) :
        LET r == Resolve(F, SubSeq(comps, 1, i))
        IN  /\ r.err # "NotADirectoryError"
            /\ (r.err = "" => Node(F, r.path).kind # "file")

NamesDirectory(F, comps) ==
    Exists(F, comps) /\ Node(F, Resolve(F, comps).path).kind = "dir"

\* C3 as amended: with PROJECT_PATH set, for every relative path p that passes
\* through no regular file and names no directory, and every content c that
\* UTF-8 can encode, write(p, c) returns a confirmation, creates the missing
\* directories, and all other files are unchanged; a following read(p) returns
\* no error and a text without carriage returns, which is exactly c when c
\* holds no carriage return.
C3_WriteThenRead ==
    [][ ( /\ pc = "executing"
          /\ inflight.tool = "write_file"
          /\ ~inflight.path.abs
          /\ projectPath.set
          /\ NoFileOnTheWay(fs, Join(projectPath, inflight.path))
          /\ ~NamesDirectory(fs, Join(projectPath, inflight.path))
          /\ "SUR" \notin Range(inflight.content) )
        => LET back == read_file(fs', projectPath, inflight.path).text
           IN  /\ WroteAndReadsBack(back)
               /\ ReadErrorPrefix \notin Range(back)
               /\ "CR" \notin Range(back)
               /\ ("CR" \notin Range(inflight.content) => back = inflight.content)
      ]_vars

\* A write to src/lib/b.tsx, whose directories did not exist, was confirmed and
\* the file holds what was written.
C3_Witness ==
    /\ transcript # <<>>
    /\ Last(transcript).action.tool = "write_file"
    /\ Last(transcript).action.path = Rel(<<"src", "lib", "b.tsx">>)
    /\ Last(transcript).action.content = <<"x">>
    /\ Last(transcript).observation[1] = "Successfully wrote to "
    /\ Node(fs, Root \o <<"src", "lib">>).kind = "dir"
    /\ read_file(fs, projectPath, Rel(<<"src", "lib", "b.tsx">>)).text = <<"x">>

\* C4: a command that exits non-zero gives an observation that carries the
\* exit status and the command's output, and the loop goes on to the next
\* planning step.
C4_NonZeroExitIsObserved ==
    [][ ( /\ pc = "executing"
          /\ inflight.tool = "run_shell_command"
          /\ ChildStarts
          /\ ~Behaviour(inflight.command, fs, projectPath.parts, stderrNoise).hangs
          /\ Behaviour(inflight.command, fs, projectPath.parts, stderrNoise).rc # 0 )
        => LET b == Behaviour(inflight.command, fs, projectPath.parts, stderrNoise)
           IN  /\ pc' = "planning"
               /\ outcome' = "none"
               /\ Last(transcript').action = inflight
               /\ Last(transcript').observation[1] = FailurePrefix
               /\ Last(transcript').observation[2] = ToString(b.rc) ]_vars

\* C5: every run and validate call comes back to the loop after a bounded
\* wait: whenever a call is in flight, the step that ends it (a result, an
\* error, a timeout) can be taken.
C5_CallInFlightComesBack ==
    pc = "executing" => ENABLED (ExecuteReturn \/ ExecuteRaise)

\* What validate() reports as pass: "a successful empty output".
ReportsPass(observation) == observation = <<SuccessPrefix>>

\* C6: validate() reports pass exactly when the type-checker exits with status
\* zero and its diagnostic output, standard output and standard error, is empty.
C6_PassIffCleanExit ==
    [][ ( Returns("validate_typescript_code") /\ ChildStarts )
        => LET b == Behaviour(ValidateCommand, fs, projectPath.parts, stderrNoise)
           IN  ReportsPass(Last(transcript').observation)
                 <=> (b.rc = 0 /\ b.out = <<>> /\ b.err = <<>>) ]_vars

Mutates(entry) == entry.action.tool \in {"write_file", "run_shell_command"}

----------------------------------------------------------------------------
(* The index contracts, under SpecIndex *)

\* The files of the project tree.
TreeFiles(F) == { p \in DOMAIN F : Under(Root, p) /\ F[p].kind = "file" }

\* C8: after index(T), retrieve(q) returns at most k chunks, each taken from a
\* file under T and none from a path with a node_modules directory, whatever
\* the persisted store held before the run.
C8_RetrieveFromTree ==
    (indexer = "indexed" /\ retrieved.done) =>
        /\ Len(retrieved.docs) <= k
        /\ \A i \in 1..Len(retrieved.docs) :
             /\ retrieved.docs[i].source \in TreeFiles(fs)
             /\ "node_modules" \notin Range(retrieved.docs[i].source)

\* C9: after index the store holds exactly the chunks of the tree just
\* indexed, each once: nothing of an earlier index, and no duplicates.
C9_IndexReplacesStore ==
    indexer = "indexed" =>
        /\ { [source |-> c.source, text |-> c.text] : c \in collection }
             = Range(Chunks(fs, Root))
        /\ Cardinality(collection) = Len(Chunks(fs, Root))

\* C10: when the tree holds no source file, index warns and does not abort,
\* the store is empty, and every retrieve returns the empty list.
C10_EmptyTreeEmptyStore ==
    ( /\ indexer = "indexed"
      /\ \A p \in TreeFiles(fs) : Ext(Last(p)) \notin {"ts", "tsx", "{ts,tsx}"} )
    => /\ warned
       /\ collection = {}
       /\ (retrieved.done => retrieved.docs = <<>>)

\* A TypeScript source of the tree: a non-empty .ts or .tsx file at any depth
\* that is not inside a node_modules directory.
IsSource(F, p) ==
    /\ p \in TreeFiles(F)
    /\ Ext(Last(p)) \in {"ts", "tsx"}
    /\ "node_modules" \notin Range(p)
    /\ F[p].data # <<>>

\* C11: index(root) finds every .ts and every .tsx file at any depth that is
\* not inside node_modules: each such non-empty file has at least one chunk in
\* the index, and no file of another type has any.
C11_IndexDiscoversSources ==
    indexer = "indexed" =>
        /\ \A p \in TreeFiles(fs) :
             IsSource(fs, p) => \E c \in collection : c.source = p
        /\ \A c \in collection : Ext(Last(c.source)) \in {"ts", "tsx"}

----------------------------------------------------------------------------
(* The loop contracts, under Spec *)

\* The entry the executor records for an output that did not parse.
Corrective(entry) == entry.action.tool = "_Exception"

\* C12: a malformed action payload never ends the loop: no run ends on a
\* parsing error, and the step that handles the payload appends one corrective
\* observation to the transcript, counts one iteration, changes no file and
\* leaves the loop in PLANNING with no outcome recorded.
C12_MalformedKeepsLoopAlive ==
    [][ /\ outcome' # "parse_error"
        /\ ( (Len(transcript') > Len(transcript) /\ Corrective(Last(transcript')))
             => /\ pc = "planning"
                /\ pc' = "planning"
                /\ outcome' = "none"
                /\ transcript' = Append(transcript, Last(transcript'))
                /\ Last(transcript').observation = <<"Invalid or incomplete response">>
                /\ iterations' = iterations + 1
                /\ fs' = fs ) ]_vars

\* A malformed payload was answered with the corrective observation and the
\* loop went on: the next iteration dispatched a tool.
C12_Witness ==
    /\ Len(transcript) = 2
    /\ Corrective(transcript[1])
    /\ transcript[1].observation = <<"Invalid or incomplete response">>
    /\ transcript[2].action.tool = "read_file"
    /\ outcome = "none"

\* C13: the agent loop always terminates: whatever the policy answers, the
\* run reaches DONE, by a final answer or by using up the iteration budget
\* (the one other end the design allows is the exhaustion of inference
\* retries), and using up the budget is recorded as a completion.
C13_LoopTerminates ==
    /\ [](outcome = "cap" => pc = "done")
    /\ [](iterations <= max_iterations)
    /\ <>(pc = "done" \/ outcome = "inference_failed")

\* C14: once the loop is running no tool outcome ends the run: a run that has
\* ended has ended by a final answer, by the iteration budget or by the
\* exhaustion of inference retries, and every step that ends a tool call puts
\* its observation in the transcript and goes back to PLANNING.
C14_OnlyLoopEnds ==
    [][ /\ (pc' \in {"done", "aborted"}
              => outcome' \in {"final", "cap", "inference_failed"})
        /\ ( (pc = "executing" /\ pc' # "executing")
             => /\ pc' = "planning"
                /\ Len(transcript') = Len(transcript) + 1
                /\ Last(transcript').action = inflight ) ]_vars

----------------------------------------------------------------------------
(* The contracts of main(), under SpecMain *)

\* A required setting is unset or a required file is missing.
ConfigurationError ==
    \/ ~projectPath.set
    \/ ~schemaPath.set
    \/ ~apiKey
    \/ (schemaPath.set /\ ~Exists(fs, schemaPath.parts))
    \/ (projectPath.set /\ ~Exists(fs, MappingPath(projectPath)))

\* agent_executor.invoke has been entered.
LoopStarted == pc \in {"planning", "executing", "done", "aborted"}

\* C15: with PROJECT_PATH, SCHEMA_JSON_PATH or GEMINI_API_KEY unset, or the
\* schema file or pages-components-list.txt missing, the loop never starts (no
\* policy call, no tool call), and when main has ended it has ended with an
\* error it reported.
C15_ConfigErrorAbortsBeforeLoop ==
    ConfigurationError =>
        /\ ~LoopStarted
        /\ inflight = NoCall
        /\ transcript = <<>>
        /\ (pc = "exited" => outcome \in {"config_error", "file_not_found"})

\* C19: indexing, the file loading of its thread pool included, has finished
\* and produced the index before the loop starts: whenever the loop has
\* started, a tool call is in flight or the transcript holds an entry,
\* index_project has returned with every file the loader found loaded.
C19_IndexCompleteBeforeLoop ==
    (LoopStarted \/ inflight # NoCall \/ transcript # <<>>)
        => /\ indexer = "indexed"
           /\ \A c \in collection : c.source \in loaded \/ c \in LoopCollection

\* A retrieval was served in the loop, from the index that the run built out
\* of the two files its pool had loaded.
C19_Witness ==
    /\ transcript # <<>>
    /\ Last(transcript).action.tool = "CodebaseRetriever"
    /\ Last(transcript).observation # <<>>
    /\ indexer = "indexed"
    /\ Cardinality(loaded) = 2
    /\ \A p \in loaded : \E c \in collection : c.source = p

----------------------------------------------------------------------------
(* The loop's discipline, under Spec *)

\* C16: in every run that ends with a final answer, each write and each run
\* of the transcript is followed, later in the transcript, by a validate().
C16_MutationsAreValidated ==
    outcome = "final" =>
        \A i \in 1..Len(transcript) :
            Mutates(transcript[i])
                => \E j \in (i + 1)..Len(transcript) :
                       transcript[j].action.tool = "validate_typescript_code"

\* C17: the transcript is append-only and counts the iterations: every step
\* keeps the entries it found, in place, adds at most one, and before and
\* after it the length is the iteration counter; every tool call that returns
\* and every corrective observation adds exactly one.
C17_TranscriptCountsIterations ==
    [][ /\ Len(transcript) = iterations
        /\ Len(transcript') = iterations'
        /\ IsPrefix(transcript, transcript')
        /\ Len(transcript') <= Len(transcript) + 1
        /\ ((pc = "executing" /\ pc' = "planning")
              => Len(transcript') = Len(transcript) + 1) ]_vars

\* Two iterations, two entries: a corrective observation, then a write.
C17_Witness ==
    /\ Len(transcript) = 2
    /\ iterations = 2
    /\ Corrective(transcript[1])
    /\ transcript[2].action.tool = "write_file"

StoreFiles(F, pp) ==
    [p \in { q \in DOMAIN F : IsPrefix(VectorStorePath(pp), q) } |-> F[p]]

\* C20: the chunk index is read-only for the whole loop: no step of the loop,
\* whatever tool call it dispatches, changes the persisted index or the set of
\* chunks that retrieve can return.
C20_LoopLeavesIndexAlone ==
    [][ projectPath.set
          => /\ collection' = collection
             /\ StoreFiles(fs', projectPath) = StoreFiles(fs, projectPath) ]_vars

----------------------------------------------------------------------------
(* The result of run, the final report and the policy's input, under Spec *)

\* C21: the result of run(command) carries the exit status and the combined
\* output of the command, what it printed on standard output and what it
\* printed on standard error, for every exit status, zero included.
C21_ResultCarriesBothStreams ==
    [][ ( Returns("run_shell_command") /\ ChildStarts )
        => LET b   == Behaviour(inflight.command, fs, projectPath.parts, stderrNoise)
               obs == Last(transcript').observation
           IN  /\ Range(UniversalNewlines(b.out)) \subseteq Range(obs)
               /\ Range(UniversalNewlines(b.err)) \subseteq Range(obs)
               /\ (b.rc # 0 => ToString(b.rc) \in Range(obs)) ]_vars

\* print("--- Agent execution finished! ---")
FinishedBanner == "--- Agent execution finished! ---"

\* A report that ends with the banner.
FinishedReportBannerOnly(out) == <<FinishedBanner>>

\* print(banner); print(f"Final Output: {result.get('output')}")
FinishedReport(out) == <<FinishedBanner, "Final Output: ", out>>

\* What main has printed last when the run has ended (for an exception nothing
\* catches, what the interpreter prints).
Report ==
    CASE outcome \in {"final", "cap"} -> FinishedReport(output)
      [] outcome = "config_error"
           -> <<"Error: Please set PROJECT_PATH and GEMINI_API_KEY in your .env file.">>
      [] outcome = "file_not_found"
           -> <<"FATAL ERROR: A required file was not found.", "Details: ">>
      [] outcome \in {"inference_failed", "tool_raised", "unexpected", "parse_error"}
           -> <<"An unexpected error occurred during agent execution: ">>
      [] outcome = "uncaught" -> <<"Traceback (most recent call last):">>
      [] OTHER -> <<>>

Ended == pc \in {"done", "aborted", "exited"}

\* Which of the three a run was.
Completion ==
    CASE outcome = "final" -> "completed"
      [] outcome = "cap"   -> "partial"
      [] OTHER             -> "aborted"

\* What a reader can tell from the report.
Classify(report) ==
    IF report # <<>> /\ report[1] = FinishedBanner
    THEN IF Len(report) >= 3 /\ report[3] = StopText THEN "partial" ELSE "completed"
    ELSE "aborted"

\* C22 as claimed: the final report of every run that has ended identifies
\* which of the three happened: ended by a terminal action, ended at the
\* iteration cap, or aborted.
C22_ReportTellsOutcomes == Ended => Classify(Report) = Completion

\* C22 as amended: the final report identifies which of the three happened
\* whenever the policy's final answer is not the executor's own stop text: a
\* run ended by a terminal action and a run ended at the cap print the same
\* banner and differ in the Final Output line alone, an aborted run prints an
\* error instead.
C22_ReportTellsOutcomesApart ==
    (Ended /\ ~(outcome = "final" /\ output = StopText))
        => Classify(Report) = Completion

\* A run that used up its budget, and whose report says so.
C22_Witness ==
    /\ pc = "done"
    /\ outcome = "cap"
    /\ iterations = max_iterations
    /\ Report = <<FinishedBanner, "Final Output: ", StopText>>
    /\ Classify(Report) = "partial"

----------------------------------------------------------------------------
(* The contracts of gemini.py *)

\* A content type with both a url field and a modular_blocks field.
HasBoth(ct) == has_url_field(ct) /\ has_modular_blocks(ct)

\* The positions of the content types that have both.
Pages(data) == { i \in 1..Len(data) : HasBoth(data[i]) }

FirstPage(data) == CHOOSE i \in Pages(data) : \A j \in Pages(data) : i <= j

----------------------------------------------------------------------------
(* The one-shot script, under SpecScript *)

\* The files other than p are the same before and after the step.
OnlyChanges(p) ==
    \A q \in (DOMAIN fs \cup DOMAIN fs') \ {p} :
        /\ q \in DOMAIN fs <=> q \in DOMAIN fs'
        /\ q \in DOMAIN fs => fs'[q] = fs[q]

\* One step of a request to the inference endpoint: at most three calls, one
\* per attempt; nothing is called after a response; None comes back only from
\* the last attempt; and the only write of a request is the one that consumes
\* its non-empty result, to its target.
RetryStep ==
    /\ api'.calls <= 3
    /\ (api.status = "calling" /\ api' # api) => api'.calls = api.calls + 1
    /\ api.status = "returned" => api' \in {api, NoRequest}
    /\ (api'.status = "returned" /\ api'.result.none) => api'.calls = 3
    /\ (api.status # "idle" /\ fs' # fs)
         => /\ api.status = "returned"
            /\ Truthy(api.result)
            /\ api' = NoRequest
            /\ OnlyChanges(api.target)

\* C23 as stated: a request makes at most max_retries (3) calls, stops at the
\* first non-empty response, returns None when every attempt failed or was
\* empty (so it never ends by raising), and leads to at most one file write,
\* made only from a successful response.
C23_RetryReturnsNone == [][RetryStep /\ api'.status # "raised"]_vars

\* C23, amended: the same, except that a failure whose message mentions the
\* API key is raised out of make_api_call_with_retry at once instead of being
\* retried or turned into None; the script then ends without a write.
C23_BoundedRetry ==
    [][ /\ RetryStep
        /\ api'.status = "raised" => (pc' = "exited" /\ fs' = fs) ]_vars

\* The third attempt of a request answered, after two that failed or were
\* empty, and its text is about to be written.
C23_Witness ==
    /\ api.status = "returned"
    /\ api.calls = 3
    /\ Truthy(api.result)

----------------------------------------------------------------------------
(* The policy's input, under Spec *)

\* agent_executor.invoke({"input": initial_input, "rag_context": ""})
rag_context == <<>>

\* What AGENT_TEMPLATE is filled with at a planning step: the plan is the
\* template's own text, {tools} and {tool_names} come from the tool list,
\* {rag_context} and {input} from the call of invoke, and {agent_scratchpad}
\* from the steps taken so far.
PolicyInput ==
    [ plan             |-> "THE PLAN",
      tools            |-> { c.tool : c \in ToolCalls },
      rag_context      |-> rag_context,
      agent_scratchpad |-> transcript ]

\* C24: at every planning step the policy input holds the plan, the tool
\* descriptions, the full transcript so far, and the most relevant context
\* retrieved from the chunk index for the step (the documents nearest to some
\* query about it).
C24_PolicyInputHasContext ==
    pc = "planning"
      => /\ PolicyInput.plan = "THE PLAN"
         /\ PolicyInput.tools = { c.tool : c \in ToolCalls }
         /\ PolicyInput.agent_scratchpad = transcript
         /\ \E q \in Queries :
              PolicyInput.rag_context = Flatten(get_relevant_documents(collection, q))

----------------------------------------------------------------------------
(* Where the file tools reach, and what they do without PROJECT_PATH *)

FileTools == {"read_file", "write_file", "list_directory"}

\* The observation is one of the tools' error texts.
IsErrorText(obs) ==
    /\ obs # <<>>
    /\ obs[1] \in {ReadErrorPrefix, WriteErrorPrefix, ListErrorPrefix}

\* The nodes of the file system that a step created or changed.
Changed == { p \in DOMAIN fs \cup DOMAIN fs' : Node(fs', p) # Node(fs, p) }

\* C26: for every path argument, '..' and absolute paths included, what
\* read_file, write_file and list_directory touch lies inside the project
\* root: a call changes nothing outside PROJECT_PATH, and a call that gives
\* back content or a listing has read it from inside PROJECT_PATH.
C26_FileToolsStayInProject ==
    [][ (projectPath.set /\ pc = "executing" /\ inflight.tool \in FileTools)
          => /\ \A p \in Changed : IsPrefix(projectPath.parts, p)
             /\ (Returns(inflight.tool) /\ ~IsErrorText(Last(transcript').observation))
                  => IsPrefix(projectPath.parts,
                              Resolve(fs', Join(projectPath, inflight.path)).path) ]_vars

NotSetText == "Error: PROJECT_PATH is not set in the .env file."

\* C27: when PROJECT_PATH is unset, every tool (read_file, write_file,
\* list_directory, run_shell_command, validate_typescript_code) returns an
\* error text and has no side effect: the call comes back into the loop, its
\* observation is the tool's error text, no file is created or changed, and
\* the shell tools answer before any child process is started.
C27_UnsetPathIsErrorText ==
    [][ ( /\ ~projectPath.set
          /\ pc = "executing"
          /\ inflight.tool \in FileTools \cup {"run_shell_command", "validate_typescript_code"} )
        => ( /\ pc' = "planning"
             /\ Last(transcript').action = inflight
             /\ IF inflight.tool \in FileTools
                THEN IsErrorText(Last(transcript').observation)
                ELSE Last(transcript').observation = <<NotSetText>>
             /\ ~ChildStarts
             /\ fs' = fs ) ]_vars

\* Without PROJECT_PATH, write_file and then "npm install" were called and
\* both gave back their error text.
C27_Witness ==
    /\ ~projectPath.set
    /\ Len(transcript) = 2
    /\ transcript[1].action.tool = "write_file"
    /\ transcript[1].observation[1] = WriteErrorPrefix
    /\ transcript[2].action.command = "npm install"
    /\ transcript[2].observation = <<NotSetText>>
    /\ fs = LoopFs

----------------------------------------------------------------------------
(* What an aborted run leaves behind, under SpecMain *)

\* C28: a run of the agent script that aborts because the schema file or
\* pages-components-list.txt is missing leaves the persisted index (the
\* directory .agent_vector_store and the chunks stored in it) and the project
\* tree exactly as they were before the run started.
C28_AbortLeavesIndexAndTree ==
    (pc = "exited" /\ outcome = "file_not_found")
        => /\ collection = LoopCollection
           /\ nextId = 2
           /\ fs \in MainTrees

\* The place of each step of main in the order of the script.
Rank(at) ==
    CASE at = "g_main"         -> 0
      [] at = "g_configure"    -> 1
      [] at = "g_setup"        -> 2
      [] at = "g_core"         -> 3
      [] at = "g_install"      -> 4
      [] at = "g_types"        -> 5
      [] at = "g_uid"          -> 6
      [] at = "g_query_page"   -> 7
      [] at = "g_query_header" -> 8
      [] at = "g_query_footer" -> 9
      [] at = "g_refactor"     -> 10
      [] at = "g_app"          -> 11
      [] at = "g_sections"     -> 12
      [] OTHER                 -> 13

\* No query file is there and every page, layout and section file is as the
\* run found it.
Untouched(F) ==
    /\ \A p \in DOMAIN F : ~Under(QueriesDir(projectPath), p)
    /\ \A p \in AppFiles(ScriptFs, projectPath) \cup SectionFiles(ScriptFs, projectPath) :
         Node(F, p) = ScriptFs[p]

\* C29: the stages of the one-shot script run in a fixed order (directories,
\* core files, SDK install, type generation, query generation, refactoring,
\* final check), none is skipped or gone back to, and a failed stage stops
\* everything after it: when the SDK install fails or type generation gives
\* nothing, no query file is written and no page, layout or section file is
\* modified; such files are touched only after the install has left
\* node_modules and the types file has been written.
C29_StagesInOrder ==
    [][ /\ pc' = "exited" \/ Rank(pc') \in {Rank(pc), Rank(pc) + 1}
        /\ outcome' \in {"install_failed", "halted"} => Untouched(fs')
        /\ ~Untouched(fs')
             => /\ Exists(fs', Append(projectPath.parts, "node_modules"))
                /\ Exists(fs', TypesFile(projectPath)) ]_vars

\* The install went through and type generation gave nothing: the script has
\* halted with no query file and every page and section as it was.
C29_Witness ==
    /\ pc = "exited"
    /\ outcome = "halted"
    /\ Exists(fs, Append(projectPath.parts, "node_modules"))
    /\ Untouched(fs)

\* The files refactor_project_files cannot decode.
Undecodable ==
    { p \in AppFiles(ScriptFs, projectPath) \cup SectionFiles(ScriptFs, projectPath) :
        "BAD" \in Range(ScriptFs[p].data) }

\* C30: in the one-shot script the target of an inference call is overwritten
\* if and only if the call returned non-empty text: the text is then written
\* to the target whatever validate_generated_code says about it (as it is for
\* a page, layout or section, stripped for the types and the queries), a call
\* that returned None or empty text or that raised leaves every file as it
\* was, and a file that cannot be decoded is skipped and keeps its content.
C30_WrittenIffTextReturned ==
    [][ /\ (api.status = "returned" /\ api' = NoRequest)
             => IF Truthy(api.result)
                THEN /\ Node(fs', api.target)
                          = File(IF pc \in {"g_app", "g_sections"}
                                 THEN api.result.text ELSE Strip(api.result.text))
                     /\ OnlyChanges(api.target)
                ELSE fs' = fs
        /\ api'.status = "raised" => fs' = fs
        /\ \A p \in Undecodable :
             /\ api'.target # p
             /\ Node(fs', p) = ScriptFs[p] ]_vars

\* The section component was overwritten with code that
\* validate_generated_code rejects, and the page that is not UTF-8 is as it was.
C30_Witness ==
    /\ pc = "exited"
    /\ outcome = "complete"
    /\ LET section == SectionsDir(projectPath) \o <<"b.tsx">>
       IN  /\ Node(fs, section).kind = "file"
           /\ ~validate_generated_code(Node(fs, section).data, "component")
           /\ Node(fs, section) # ScriptFs[section]
    /\ \A p \in Undecodable : Node(fs, p) = ScriptFs[p]
    /\ Undecodable # {}

====
